---- MODULE Spec2Model ----
(***************************************************************************)
(* KickZone: booking conflict detection, pricing, lifecycle, promotion     *)
(* usage and the reserved-hours cache, modelled from kickzone_app          *)
(* (models.py, views.py, enhanced_views.py, serializers.py, signals.py).   *)
(*                                                                         *)
(* Time of day is counted in quarter hours (HH:MM values that are          *)
(* multiples of 15 minutes); money is counted in cents.                    *)
(***************************************************************************)
EXTENDS Integers, FiniteSets, Sequences, TLC

\* ------------------------------------------------------------------ bounds
MaxBookings == 2      \* booking rows ever inserted (primary keys 1..MaxBookings)
MaxTime == 10         \* times of day are 0..MaxTime quarter hours
MaxDate == 2          \* calendar dates are 0..MaxDate

\* ------------------------------------------------------- program constants
QuartersPerHour == 4  \* total_seconds() / 3600 with a quarter hour as unit
MinDurationQ == 2     \* 0.5 hours, in quarter hours
DaysPerWeek == 7      \* date.weekday() is 0..6
Percent == 100

Times == 0..MaxTime
Dates == 0..MaxDate

\* The requests and clock readings the environment produces: intervals that are
\* valid, touching, overlapping, reversed, empty, shorter than 30 minutes, and
\* outside the opening window 1..MaxTime-1 on either side.
Slots == {<<1, 3>>, <<3, 5>>, <<2, 4>>, <<5, 1>>, <<2, 3>>, <<0, 2>>, <<MaxTime - 2, MaxTime>>}
ClockTimes == {0, 3}
Creators == {"alice"}
EnhancedCreators == {"alice", "bob"}
BookingIds == 1..MaxBookings

Users == {"alice", "bob", "carol", "dave", "erin"}
Pitches == {"p1"}
NoPitch == "nopitch"          \* a pitch id with no row
NoPromo == "nopromo"          \* request without promotion_code
Promos == {"SAVE20", "ONCE50"}
PromoCodes == {NoPromo, "SAVE20", "ONCE50", "BOGUS"}

\* PATCH bodies: a later end_time, a start_time before 06:00, a date.
Absent == -1
\* a date or time string that strptime cannot parse
Malformed == -2
Patches == {[date |-> Absent, start_time |-> Absent, end_time |-> 4],
            [date |-> Absent, start_time |-> 0, end_time |-> Absent],
            [date |-> 1, start_time |-> Absent, end_time |-> Absent]}
Rates == {5000, 2050}

\* Creation requests: every slot on the open date 1 of pitch p1, and one request
\* each for an unknown pitch, a date whose weekday has no availability row and a
\* date whose weekday is marked unavailable.
Req(p, d, s, e) == [pitch |-> p, date |-> d, start_time |-> s, end_time |-> e]
Requests == {Req("p1", 1, se[1], se[2]) : se \in Slots}
            \cup {Req(NoPitch, 1, 1, 3), Req("p1", 0, 1, 3), Req("p1", MaxDate, 1, 3)}

\* User.user_type (models.py USER_TYPE_CHOICES), fixed per account.
\* alice books; dave is a second player who books nothing; bob owns the pitch;
\* erin is an owner whose pitches are not the one booked here; carol is an admin.
user_type(u) == CASE u \in {"alice", "dave"} -> "player"
                  [] u \in {"bob", "erin"} -> "owner"
                  [] OTHER -> "admin"

\* Pitch.owner
pitch_owner(p) == "bob"

\* PitchAvailability rows of the pitch, one per weekday at most.
\* weekday 0: no row; weekday 1: open 1..MaxTime-1; weekday 2: row with is_available False.
NoEntry == [exists |-> FALSE, is_available |-> FALSE, opening_time |-> 0, closing_time |-> 0]

initial_availability(p, wd) ==
    CASE wd = 1 -> [exists |-> TRUE, is_available |-> TRUE, opening_time |-> 1, closing_time |-> MaxTime - 1]
      [] wd = 2 -> [exists |-> TRUE, is_available |-> FALSE, opening_time |-> 1, closing_time |-> MaxTime - 1]
      [] OTHER -> NoEntry

\* date_obj.weekday()
weekday(d) == d % DaysPerWeek
Weekdays == 0..(DaysPerWeek - 1)

\* The server's workers; each handles one request at a time.
Workers == {"w1", "w2"}
Idle == [stage |-> "idle"]

\* Promotion rows: discount_percentage, max_uses and the validity window are fixed,
\* current_uses varies.  SAVE20 has max_uses None, ONCE50 may be used once.
NoLimit == -1
discount_percentage(c) == IF c = "SAVE20" THEN 20 ELSE 50
max_uses(c) == IF c = "SAVE20" THEN NoLimit ELSE 1

VARIABLES
    bookings,     \* Booking rows: primary key -> row
    nextId,       \* next primary key of Booking (auto increment, never reused)
    payments,     \* Payment rows, keyed by their booking (OneToOneField)
    price_per_hour, \* Pitch.price_per_hour in cents, per pitch
    current_uses, \* Promotion.current_uses, per promotion code
    applied,      \* history: bookings created by a request that carried the code
    reserved_hours, \* User.reserved_hours, per user
    now,          \* timezone.now(): [date, time]
    routes,       \* which BookingViewSet the router serves: "views" or "enhanced_views"
    last,         \* the response to the last request: [op, result]
    availabilities, \* PitchAvailability rows: pitch -> weekday -> row
    inflight      \* per worker: the request it is in the middle of, and what it has read

vars == <<bookings, nextId, payments, price_per_hour, current_uses, applied,
          reserved_hours, now, routes, last, availabilities, inflight>>

\* PitchAvailability.objects.get(pitch=pitch, day_of_week=day_of_week)
availability(p, wd) == availabilities[p][wd]

\* ------------------------------------------------------------ pure helpers

\* Decimal quantize to 2 places as DecimalField(max_digits=10, decimal_places=2)
\* stores a float: n/d cents rounded to the nearest cent, ties to even.
RoundHalfEven(n, d) ==
    LET q == n \div d
        r == n % d
    IN  IF 2 * r < d THEN q
        ELSE IF 2 * r > d THEN q + 1
        ELSE IF q % 2 = 0 THEN q ELSE q + 1

\* int(x): truncation toward zero of n/d
TruncDiv(n, d) == IF n >= 0 THEN n \div d ELSE -((-n) \div d)

\* seeded fault: only whole hours are charged
save_total_price_whole_hours(rate, start, end) == rate * ((end - start) \div QuartersPerHour)

\* Booking.save: total_price = float(pitch.price_per_hour) * duration_hours,
\* computed from the pitch's rate at the time of the save, then stored with 2 places.
save_total_price(rate, start, end) == RoundHalfEven(rate * (end - start), QuartersPerHour)

\* seeded fault: closed intervals: a shared end point counts as an overlap
overlaps_closed(b, start, end) == b.start_time <= end /\ b.end_time >= start

\* start_time__lt=end_time_obj, end_time__gt=start_time_obj
overlaps(b, start, end) == b.start_time < end /\ b.end_time > start

\* seeded fault: every booking that is not cancelled blocks its slot
active_not_cancelled(b) == b.status # "cancelled"

\* status__in=['confirmed', 'pending']
active(b) == b.status \in {"confirmed", "pending"}

\* Booking.objects.filter(pitch, date, status__in=[confirmed, pending], start_time__lt, end_time__gt)
overlapping_bookings(bks, p, d, start, end) ==
    {i \in DOMAIN bks : /\ bks[i].pitch = p
                        /\ bks[i].date = d
                        /\ active(bks[i])
                        /\ overlaps(bks[i], start, end)}

\* seeded fault: a booking that ends at the current time is not yet expired
should_be_completed_strict(b, nw) ==
    \/ b.date < nw.date
    \/ (b.date = nw.date /\ b.end_time < nw.time)

\* Booking.should_be_completed / the Q filter of update_expired_bookings
should_be_completed(b, nw) ==
    \/ b.date < nw.date
    \/ (b.date = nw.date /\ b.end_time <= nw.time)

expired_bookings(bks, nw) ==
    {i \in DOMAIN bks : bks[i].status = "pending" /\ should_be_completed(bks[i], nw)}

RECURSIVE SumQ(_, _)
SumQ(bks, S) ==
    IF S = {} THEN 0
    ELSE LET i == CHOOSE x \in S : TRUE
         IN  (bks[i].end_time - bks[i].start_time) + SumQ(bks, S \ {i})

\* seeded fault: each booking's duration is truncated before it is added
calculate_reserved_hours_each(bks, u) ==
    LET mine == {i \in DOMAIN bks : bks[i].player = u
                                    /\ bks[i].status \in {"confirmed", "completed"}}
        whole == [i \in mine |-> [start_time |-> 0,
                                  end_time |-> QuartersPerHour
                                     * TruncDiv(bks[i].end_time - bks[i].start_time,
                                                QuartersPerHour)]]
    IN  TruncDiv(SumQ(whole, mine), QuartersPerHour)

\* User.calculate_reserved_hours
calculate_reserved_hours(bks, u) ==
    TruncDiv(SumQ(bks, {i \in DOMAIN bks : bks[i].player = u
                                           /\ bks[i].status \in {"confirmed", "completed"}}),
             QuartersPerHour)

\* signals.update_user_reserved_hours, run for the player of every saved or deleted row
update_user_reserved_hours(res, bks, players) ==
    [u \in Users |-> IF u \in players THEN calculate_reserved_hours(bks, u) ELSE res[u]]

\* Booking.update_expired_bookings: every expired pending row is saved as completed
\* (update_fields = status, updated_at), each save firing the post_save signal.
update_expired_bookings(bks, nw) ==
    [i \in DOMAIN bks |-> IF i \in expired_bookings(bks, nw)
                          THEN [bks[i] EXCEPT !.status = "completed"]
                          ELSE bks[i]]

swept_players(bks, nw) == {bks[i].player : i \in expired_bookings(bks, nw)}

\* seeded fault: every user may address every booking
get_queryset_all(bks, u) == DOMAIN bks

\* BookingViewSet.get_queryset: the rows the user may address
get_queryset(bks, u) ==
    IF user_type(u) = "owner" THEN {i \in DOMAIN bks : pitch_owner(bks[i].pitch) = u}
    ELSE IF user_type(u) = "admin" THEN DOMAIN bks
    ELSE {i \in DOMAIN bks : bks[i].player = u}

Resp(op, result, id) == [op |-> op, result |-> result]

\* --------------------------------------------------------------- initial state
Init ==
    /\ bookings = << >>
    /\ nextId = 1
    /\ payments = << >>
    /\ price_per_hour = [p \in Pitches |-> 5000]
    /\ current_uses = [c \in Promos |-> 0]
    /\ applied = [c \in Promos |-> {}]
    /\ reserved_hours = [u \in Users |-> 0]
    /\ now = [date |-> 1, time |-> 0]
    /\ routes \in {"views", "enhanced_views"}
    /\ last = Resp("none", "none", 0)
    /\ availabilities = [p \in Pitches |-> [wd \in Weekdays |-> initial_availability(p, wd)]]
    /\ inflight = [w \in Workers |-> Idle]

\* The clock: the time of day advances, or the next day begins.
Tick ==
    /\ \/ \E t \in ClockTimes : /\ t > now.time
                                /\ now' = [now EXCEPT !.time = t]
       \/ /\ now.date < MaxDate
          /\ now' = [date |-> now.date + 1, time |-> 0]
    /\ UNCHANGED <<bookings, nextId, payments, price_per_hour, current_uses, applied,
                   reserved_hours, routes, last,
                   availabilities, inflight>>

\* -------------------------------------------------- views.BookingViewSet.create
\* The row Booking.objects.create inserts: Booking.save overwrites total_price.
new_booking(p, u, d, start, end) ==
    [pitch |-> p, player |-> u, date |-> d, start_time |-> start, end_time |-> end,
     status |-> "pending", total_price |-> save_total_price(price_per_hour[p], start, end)]

\* seeded fault: the closing time is not compared
create_result_no_closing(p, d, start, end) ==
    IF Absent \in {d, start, end} THEN "missing_field"
    ELSE IF p \notin Pitches THEN "pitch_not_found"
    ELSE IF d = Malformed THEN "invalid_format"
    ELSE LET a == availability(p, weekday(d)) IN
         IF ~a.exists THEN "no_availability"
         ELSE IF ~a.is_available THEN "unavailable_day"
         ELSE IF Malformed \in {start, end} THEN "invalid_format"
         ELSE IF start < a.opening_time THEN "outside_hours"
         ELSE IF overlapping_bookings(bookings, p, d, start, end) # {} THEN "slot_conflict"
         ELSE "created"

create_result(p, d, start, end) ==
    IF Absent \in {d, start, end} THEN "missing_field"
    ELSE IF p \notin Pitches THEN "pitch_not_found"
    ELSE IF d = Malformed THEN "invalid_format"
    ELSE LET a == availability(p, weekday(d)) IN
         IF ~a.exists THEN "no_availability"
         ELSE IF ~a.is_available THEN "unavailable_day"
         ELSE IF Malformed \in {start, end} THEN "invalid_format"
         ELSE IF start < a.opening_time \/ end > a.closing_time THEN "outside_hours"
         ELSE IF overlapping_bookings(bookings, p, d, start, end) # {} THEN "slot_conflict"
         ELSE "created"

\* seeded fault: a rejected creation request first runs the expiry sweep, as the
\* detail routes do
rejected_after_sweep(op, r) ==
    /\ bookings' = update_expired_bookings(bookings, now)
    /\ reserved_hours' = update_user_reserved_hours(reserved_hours, bookings',
                                                    swept_players(bookings, now))
    /\ last' = Resp(op, r, 0)
    /\ UNCHANGED <<nextId, payments, price_per_hour, current_uses, applied, now, routes,
                   availabilities, inflight>>

\* return Response(error) / raise ValidationError before Booking.objects.create:
\* nothing has been written
rejected(op, r) ==
    /\ last' = Resp(op, r, 0)
    /\ UNCHANGED <<bookings, nextId, payments, price_per_hour, current_uses, applied,
                   reserved_hours, now, routes, availabilities, inflight>>

Create(u, p, d, start, end) ==
    LET r == create_result(p, d, start, end) IN
    /\ routes = "views"
    /\ IF r = "created"
       THEN /\ nextId <= MaxBookings
            /\ bookings' = (nextId :> new_booking(p, u, d, start, end)) @@ bookings
            /\ nextId' = nextId + 1
            /\ reserved_hours' = update_user_reserved_hours(reserved_hours, bookings', {u})
            /\ last' = Resp("create", r, nextId)
            /\ UNCHANGED <<payments, price_per_hour, current_uses, applied, now, routes,
                           availabilities, inflight>>
       ELSE rejected("create", r)

\* ---------------------------------------- enhanced_views.BookingViewSet.create
\* Promotion.is_valid: valid_from <= now <= valid_until and uses left
Before(a, b) == a.date < b.date \/ (a.date = b.date /\ a.time <= b.time)

\* SAVE20 is valid from 06:30 of date 1 to the start of date MaxDate, ONCE50 from
\* the start of date 0 to the start of date 1.
valid_from(c) == IF c = "SAVE20" THEN [date |-> 1, time |-> 3]
                 ELSE [date |-> 0, time |-> 0]
valid_until(c) == IF c = "SAVE20" THEN [date |-> MaxDate, time |-> 0]
                  ELSE [date |-> 1, time |-> 0]

\* seeded fault: a promotion whose counter has reached max_uses is still valid
is_valid_at_max(c) ==
    /\ Before(valid_from(c), now) /\ Before(now, valid_until(c))
    /\ (max_uses(c) = NoLimit \/ current_uses[c] <= max_uses(c))

\* seeded fault: the promotion is no longer valid at the instant valid_until
is_valid_before_until(c) ==
    /\ Before(valid_from(c), now) /\ Before(now, valid_until(c)) /\ now # valid_until(c)
    /\ (max_uses(c) = NoLimit \/ current_uses[c] < max_uses(c))

is_valid(c) ==
    /\ Before(valid_from(c), now) /\ Before(now, valid_until(c))
    /\ (max_uses(c) = NoLimit \/ current_uses[c] < max_uses(c))

\* seeded fault: the counter is also incremented when the request carried no valid code
uses_always_incremented(uses, c) == [x \in Promos |-> uses[x] + 1]

\* if promotion: promotion.current_uses += 1; promotion.save()
uses_after_create(uses, c) ==
    IF c = NoPromo THEN uses ELSE [uses EXCEPT ![c] = @ + 1]

\* seeded fault: a booking for today is refused as past
enhanced_create_result_no_today(u, p, d, start, end, c) ==
    IF Absent \in {d, start, end} THEN "missing_field"
    ELSE IF user_type(u) \notin {"player", "admin"} THEN "forbidden"
    ELSE IF p \notin Pitches THEN "pitch_not_found"
    ELSE IF Malformed \in {d, start, end} THEN "invalid_format"
    ELSE IF d <= now.date THEN "past_date"
    ELSE IF end <= start THEN "invalid_interval"
    ELSE IF end - start < MinDurationQ THEN "too_short"
    ELSE LET a == availability(p, weekday(d)) IN
         IF ~a.exists THEN "no_availability"
         ELSE IF ~a.is_available THEN "unavailable_day"
         ELSE IF start < a.opening_time \/ end > a.closing_time THEN "outside_hours"
         ELSE IF overlapping_bookings(bookings, p, d, start, end) # {} THEN "slot_conflict"
         ELSE IF c # NoPromo /\ c \notin Promos THEN "invalid_promotion"
         ELSE IF c # NoPromo /\ ~is_valid(c) THEN "invalid_promotion"
         ELSE "created"

enhanced_create_result(u, p, d, start, end, c) ==
    IF Absent \in {d, start, end} THEN "missing_field"
    ELSE IF user_type(u) \notin {"player", "admin"} THEN "forbidden"
    ELSE IF p \notin Pitches THEN "pitch_not_found"
    ELSE IF Malformed \in {d, start, end} THEN "invalid_format"
    ELSE IF d < now.date THEN "past_date"
    ELSE IF end <= start THEN "invalid_interval"
    ELSE IF end - start < MinDurationQ THEN "too_short"
    ELSE LET a == availability(p, weekday(d)) IN
         IF ~a.exists THEN "no_availability"
         ELSE IF ~a.is_available THEN "unavailable_day"
         ELSE IF start < a.opening_time \/ end > a.closing_time THEN "outside_hours"
         ELSE IF overlapping_bookings(bookings, p, d, start, end) # {} THEN "slot_conflict"
         ELSE IF c # NoPromo /\ c \notin Promos THEN "invalid_promotion"
         ELSE IF c # NoPromo /\ ~is_valid(c) THEN "invalid_promotion"
         ELSE "created"

\* Booking.objects.create (Booking.save recomputes total_price from the rate, so the
\* discounted total_price passed in is overwritten), Payment.objects.create with
\* amount = booking.total_price, then promotion.current_uses += 1.
EnhancedCreate(u, p, d, start, end, c, mail) ==
    LET r == enhanced_create_result(u, p, d, start, end, c) IN
    /\ routes = "enhanced_views"
    /\ IF r = "created"
       THEN /\ nextId <= MaxBookings
            /\ bookings' = (nextId :> new_booking(p, u, d, start, end)) @@ bookings
            /\ nextId' = nextId + 1
            /\ reserved_hours' = update_user_reserved_hours(reserved_hours, bookings', {u})
            /\ payments' = (nextId :> [amount |-> bookings'[nextId].total_price,
                                       status |-> "pending"]) @@ payments
            /\ current_uses' = uses_after_create(current_uses, c)
            /\ applied' = IF c = NoPromo THEN applied
                          ELSE [applied EXCEPT ![c] = @ \cup {nextId}]
            /\ last' = Resp("enhanced_create", r, nextId)
            /\ UNCHANGED <<price_per_hour, now, routes,
                           availabilities, inflight>>
       ELSE rejected("enhanced_create", r)

\* ------------------------------------------------------------ detail routes
\* get_object: get_queryset first runs Booking.update_expired_bookings, then the
\* row is looked up among the rows visible to the user.
swept == update_expired_bookings(bookings, now)
swept_reserved == update_user_reserved_hours(reserved_hours, swept, swept_players(bookings, now))

\* Booking.save() without update_fields: status set, total_price recomputed
saved(b, st) == [b EXCEPT !.status = st,
                          !.total_price = save_total_price(price_per_hour[b.pitch],
                                                           b.start_time, b.end_time)]

\* Outcome of a request that changed nothing but what the sweep changed.
Refuse(op, result, id) ==
    /\ bookings' = swept
    /\ reserved_hours' = swept_reserved
    /\ last' = Resp(op, result, id)
    /\ UNCHANGED <<nextId, payments, price_per_hour, current_uses, applied, now, routes,
                   availabilities, inflight>>

\* seeded fault: confirm does not look at the booking's status
confirm_result_any_status(u, i) ==
    IF i \notin get_queryset(swept, u) THEN "not_found"
    ELSE IF user_type(u) \notin {"owner", "admin"}
            \/ (user_type(u) = "owner" /\ pitch_owner(swept[i].pitch) # u) THEN "forbidden"
    ELSE "ok"

\* views.BookingViewSet.confirm
confirm_result(u, i) ==
    IF i \notin get_queryset(swept, u) THEN "not_found"
    ELSE IF swept[i].status # "pending" THEN "invalid_transition"
    ELSE IF user_type(u) \notin {"owner", "admin"}
            \/ (user_type(u) = "owner" /\ pitch_owner(swept[i].pitch) # u) THEN "forbidden"
    ELSE "ok"

\* After the save, Payment.objects.create raises IntegrityError when the booking
\* already has its payment, and send_mail is not guarded: the response is then a
\* server error although the booking was saved as confirmed.
Confirm(u, i, mail) ==
    LET r == confirm_result(u, i) IN
    /\ routes = "views"
    /\ IF r = "ok"
       THEN /\ bookings' = [swept EXCEPT ![i] = saved(@, "confirmed")]
            /\ reserved_hours' = update_user_reserved_hours(swept_reserved, bookings',
                                                            {swept[i].player})
            /\ payments' = IF i \in DOMAIN payments THEN payments
                           ELSE (i :> [amount |-> bookings'[i].total_price,
                                       status |-> "pending"]) @@ payments
            /\ last' = Resp("confirm",
                            IF i \in DOMAIN payments \/ ~mail THEN "server_error" ELSE "ok", i)
            /\ UNCHANGED <<nextId, price_per_hour, current_uses, applied, now, routes,
                           availabilities, inflight>>
       ELSE Refuse("confirm", r, i)

\* enhanced_views.BookingViewSet.confirm
enhanced_confirm_result(u, i) ==
    IF i \notin get_queryset(swept, u) THEN "not_found"
    ELSE IF u # pitch_owner(swept[i].pitch) /\ user_type(u) # "admin" THEN "forbidden"
    ELSE IF swept[i].status # "pending" THEN "invalid_transition"
    ELSE "ok"

EnhancedConfirm(u, i, mail) ==
    LET r == enhanced_confirm_result(u, i) IN
    /\ routes = "enhanced_views"
    /\ IF r = "ok"
       THEN /\ bookings' = [swept EXCEPT ![i] = saved(@, "confirmed")]
            /\ reserved_hours' = update_user_reserved_hours(swept_reserved, bookings',
                                                            {swept[i].player})
            /\ payments' = IF i \in DOMAIN payments
                           THEN [payments EXCEPT ![i].status = "completed"]
                           ELSE payments
            /\ last' = Resp("enhanced_confirm", "ok", i)
            /\ UNCHANGED <<nextId, price_per_hour, current_uses, applied, now, routes,
                           availabilities, inflight>>
       ELSE Refuse("enhanced_confirm", r, i)

\* views.BookingViewSet.cancel
cancel_result(u, i) ==
    IF i \notin get_queryset(swept, u) THEN "not_found"
    ELSE IF swept[i].status \in {"completed", "cancelled"} THEN "invalid_transition"
    ELSE IF u \notin {swept[i].player, pitch_owner(swept[i].pitch)} /\ user_type(u) # "admin"
         THEN "forbidden"
    ELSE "ok"

\* enhanced_views.BookingViewSet.cancel: the permission is checked first
enhanced_cancel_result(u, i) ==
    IF i \notin get_queryset(swept, u) THEN "not_found"
    ELSE IF u \notin {swept[i].player, pitch_owner(swept[i].pitch)} /\ user_type(u) # "admin"
         THEN "forbidden"
    ELSE IF swept[i].status \in {"completed", "cancelled"} THEN "invalid_transition"
    ELSE "ok"

do_cancel(op, r, i) ==
    IF r = "ok"
    THEN /\ bookings' = [swept EXCEPT ![i] = saved(@, "cancelled")]
         /\ reserved_hours' = update_user_reserved_hours(swept_reserved, bookings',
                                                         {swept[i].player})
         /\ payments' = IF i \in DOMAIN payments
                        THEN [payments EXCEPT ![i].status = "refunded"]
                        ELSE payments
         /\ last' = Resp(op, "ok", i)
         /\ UNCHANGED <<nextId, price_per_hour, current_uses, applied, now, routes,
                        availabilities, inflight>>
    ELSE Refuse(op, r, i)

Cancel(u, i, mail) ==
    /\ routes = "views"
    /\ do_cancel("cancel", cancel_result(u, i), i)

EnhancedCancel(u, i, mail) ==
    /\ routes = "enhanced_views"
    /\ do_cancel("enhanced_cancel", enhanced_cancel_result(u, i), i)

\* ------------------------------------------ ModelViewSet update / destroy
\* BookingSerializer.validate_start_time: between 06:00 and 22:00.  Time 0 of the
\* model is 05:45, the quarter hour before the serializer's earliest start.
DayBase == 6 * QuartersPerHour - 1
start_time_allowed(t) ==
    t + DayBase >= 6 * QuartersPerHour /\ t + DayBase <= 22 * QuartersPerHour

\* PATCH through BookingSerializer.  pitch is read-only, so validated data never
\* holds a pitch: validate_business_hours needs date, start and end together,
\* calculate_booking_price and validate_booking_conflicts need the pitch, and
\* all three are skipped.  A date in the body never validates: validate_date
\* rejects a past date, and validate_booking_advance_booking subtracts the aware
\* timezone.now() from a naive datetime (USE_TZ = True), a TypeError.
update_result(u, i, d, start, end) ==
    IF i \notin get_queryset(swept, u) THEN "not_found"
    ELSE IF d # Absent /\ d < now.date THEN "past_date"
    ELSE IF d # Absent THEN "server_error"
    ELSE IF start # Absent /\ ~start_time_allowed(start) THEN "invalid_start"
    ELSE IF user_type(u) \notin {"player", "admin"} THEN "forbidden"
    ELSE "ok"

\* ModelSerializer.update: setattr for each validated field, then instance.save()
patched(b, start, end) ==
    LET s == IF start = Absent THEN b.start_time ELSE start
        e == IF end = Absent THEN b.end_time ELSE end
    IN  [b EXCEPT !.start_time = s, !.end_time = e,
                  !.total_price = save_total_price(price_per_hour[b.pitch], s, e)]

PartialUpdate(u, i, d, start, end) ==
    LET r == update_result(u, i, d, start, end) IN
    IF r = "ok"
    THEN /\ bookings' = [swept EXCEPT ![i] = patched(@, start, end)]
         /\ reserved_hours' = update_user_reserved_hours(swept_reserved, bookings',
                                                         {swept[i].player})
         /\ last' = Resp("update", "ok", i)
         /\ UNCHANGED <<nextId, payments, price_per_hour, current_uses, applied, now, routes,
                        availabilities, inflight>>
    ELSE Refuse("update", r, i)

Without(f, i) == [j \in DOMAIN f \ {i} |-> f[j]]

\* DestroyModelMixin.destroy: the row and (on_delete=CASCADE) its payment
Destroy(u, i) ==
    IF i \in get_queryset(swept, u)
    THEN /\ bookings' = Without(swept, i)
         /\ payments' = Without(payments, i)
         /\ reserved_hours' = update_user_reserved_hours(swept_reserved, bookings',
                                                         {swept[i].player})
         /\ last' = Resp("destroy", "ok", i)
         /\ UNCHANGED <<nextId, price_per_hour, current_uses, applied, now, routes,
                        availabilities, inflight>>
    ELSE Refuse("destroy", "not_found", i)

\* ------------------------------------------------------------ expiry sweeps
\* GET /bookings/: get_queryset runs the sweep for any authenticated user
List(u) == Refuse("list", "ok", 0)

\* views.BookingViewSet.update_expired
UpdateExpired(u) ==
    /\ routes = "views"
    /\ IF user_type(u) \notin {"admin", "owner"}
       THEN /\ last' = Resp("update_expired", "forbidden", 0)
            /\ UNCHANGED <<bookings, nextId, payments, price_per_hour, current_uses,
                           applied, reserved_hours, now, routes,
                           availabilities, inflight>>
       ELSE Refuse("update_expired", "ok", 0)

\* management command update_expired_bookings (without --dry-run)
ExpireCommand == Refuse("expire_command", "ok", 0)

\* ------------------------------------------------------------- payments
\* POST /payments/ through PaymentSerializer, open to every authenticated user
\* and for every booking: the booking must exist and have no payment yet
\* (OneToOneField), the amount must be > 0 and equal the booking's total_price;
\* status is a writable field.
payment_create_result(i, amount) ==
    IF i \notin DOMAIN bookings THEN "invalid_booking"
    ELSE IF i \in DOMAIN payments THEN "payment_exists"
    ELSE IF amount <= 0 THEN "invalid_amount"
    ELSE IF amount # bookings[i].total_price THEN "amount_mismatch"
    ELSE "created"

\* the amounts a client posts: the booking's total_price
Amounts(i) == IF i \in DOMAIN bookings THEN {bookings[i].total_price} ELSE {1}

PaymentCreate(u, i, st) ==
    \E amount \in Amounts(i) :
    LET r == payment_create_result(i, amount) IN
    /\ last' = Resp("payment_create", r, i)
    /\ payments' = IF r = "created"
                   THEN (i :> [amount |-> amount, status |-> st]) @@ payments
                   ELSE payments
    /\ UNCHANGED <<bookings, nextId, price_per_hour, current_uses, applied, reserved_hours,
                   now, routes,
                   availabilities, inflight>>

\* PaymentViewSet.get_queryset
payment_queryset(u) ==
    IF user_type(u) = "admin" THEN DOMAIN payments
    ELSE {i \in DOMAIN payments : bookings[i].player = u}

\* PaymentViewSet.process
process_result(u, i, method) ==
    IF i \notin payment_queryset(u) THEN "not_found"
    ELSE IF payments[i].status # "pending" THEN "invalid_transition"
    ELSE IF u # bookings[i].player /\ user_type(u) # "admin" THEN "forbidden"
    ELSE IF ~method THEN "missing_method"
    ELSE "ok"

\* payment.save(), then booking.status = 'confirmed' and booking.save() whatever
\* the booking's status was; send_mail is not guarded.
PaymentProcess(u, i, method, mail) ==
    LET r == process_result(u, i, method) IN
    IF r = "ok"
    THEN /\ payments' = [payments EXCEPT ![i].status = "completed"]
         /\ bookings' = [bookings EXCEPT ![i] = saved(@, "confirmed")]
         /\ reserved_hours' = update_user_reserved_hours(reserved_hours, bookings',
                                                         {bookings[i].player})
         /\ last' = Resp("process", IF mail THEN "ok" ELSE "server_error", i)
         /\ UNCHANGED <<nextId, price_per_hour, current_uses, applied, now, routes,
                        availabilities, inflight>>
    ELSE /\ last' = Resp("process", r, i)
         /\ UNCHANGED <<bookings, nextId, payments, price_per_hour, current_uses, applied,
                        reserved_hours, now, routes,
                        availabilities, inflight>>

\* ------------------------------------------------------------- promotions
\* PromotionViewSet.get_queryset: non-admins only see promotions inside their window
promotion_queryset(u) ==
    IF user_type(u) = "admin" THEN Promos
    ELSE {c \in Promos : Before(valid_from(c), now) /\ Before(now, valid_until(c))}

\* PromotionViewSet.use.  On a pending booking of the user the handler multiplies
\* booking.total_price (a Decimal) by discount_percentage / 100 (a float), which
\* raises TypeError before anything is saved.
use_result(u, c, i) ==
    IF c \notin promotion_queryset(u) THEN "not_found"
    ELSE IF ~is_valid(c) THEN "invalid_promotion"
    ELSE IF i = 0 THEN "missing_booking"
    ELSE IF i \notin DOMAIN bookings \/ bookings[i].player # u THEN "booking_not_found"
    ELSE IF bookings[i].status # "pending" THEN "invalid_transition"
    ELSE "server_error"

PromotionUse(u, c, i) ==
    /\ last' = Resp("use", use_result(u, c, i), i)
    /\ UNCHANGED <<bookings, nextId, payments, price_per_hour, current_uses, applied,
                   reserved_hours, now, routes,
                   availabilities, inflight>>

\* ------------------------------------------------------- reserved hours
\* seeded fault: the recomputed hours are added to the stored value
added_reserved_hours(res, bks) ==
    [u \in Users |-> res[u] + calculate_reserved_hours(bks, u)]

\* User.update_reserved_hours for every user: the stored value is replaced by
\* calculate_reserved_hours()
recomputed_reserved_hours(res, bks) ==
    [u \in Users |-> calculate_reserved_hours(bks, u)]

\* management command update_reserved_hours
ReservedHoursCommand ==
    /\ reserved_hours' = recomputed_reserved_hours(reserved_hours, bookings)
    /\ last' = Resp("reserved_hours_command", "ok", 0)
    /\ UNCHANGED <<bookings, nextId, payments, price_per_hour, current_uses, applied,
                   now, routes,
                   availabilities, inflight>>

\* ------------------------------------------------------------- pitches
\* PitchSerializer.validate_price_per_hour: 0 < price <= 1000
SetRate(p, r) ==
    /\ r > 0 /\ r <= 1000 * Percent
    /\ r # price_per_hour[p]
    /\ price_per_hour' = [price_per_hour EXCEPT ![p] = r]
    /\ last' = Resp("set_rate", "ok", 0)
    /\ UNCHANGED <<bookings, nextId, payments, current_uses, applied, reserved_hours,
                   now, routes,
                   availabilities, inflight>>

\* ------------------------------------------------------- pitch availabilities
\* PitchAvailabilitySerializer.validate calls validate_business_hours(data,
\* 'opening_time', 'closing_time'), which compares the two times only when the
\* data also holds the key 'date'; availability data never does, so the body is
\* skipped.  validate_day_of_week keeps the weekday within 0..6.
availability_result(wd, opening, closing) ==
    IF wd \notin Weekdays THEN "invalid_day" ELSE "ok"

\* POST /pitch-availabilities/: the serializer has no pitch field, so the insert
\* has no pitch and the database refuses it; nothing is stored.
AvailabilityCreate(u, wd, opening, closing, open) ==
    LET r == availability_result(wd, opening, closing) IN
    /\ last' = Resp("availability_create", IF r = "ok" THEN "server_error" ELSE r, 0)
    /\ UNCHANGED <<bookings, nextId, payments, price_per_hour, current_uses, applied,
                   reserved_hours, now, routes, availabilities, inflight>>

\* PUT /pitch-availabilities/<id>/ on the row of pitch p and weekday wd, open to
\* every authenticated user: the validated times are stored.
AvailabilityUpdate(u, p, wd, opening, closing, open) ==
    /\ IF ~availabilities[p][wd].exists
       THEN /\ last' = Resp("availability_update", "not_found", 0)
            /\ UNCHANGED availabilities
       ELSE LET r == availability_result(wd, opening, closing) IN
            /\ last' = Resp("availability_update", r, 0)
            /\ availabilities' =
                  IF r = "ok"
                  THEN [availabilities EXCEPT ![p][wd] =
                           [exists |-> TRUE, is_available |-> open,
                            opening_time |-> opening, closing_time |-> closing]]
                  ELSE availabilities
    /\ UNCHANGED <<bookings, nextId, payments, price_per_hour, current_uses, applied,
                   reserved_hours, now, routes, inflight>>

\* ------------------------------------------------- requests served concurrently
\* No handler opens a transaction or locks a row, and ATOMIC_REQUESTS is off:
\* every query and every save is its own database statement, and the statements
\* of two workers interleave.  A worker keeps what it has read in inflight.
NoRequest == Req(NoPitch, 0, 0, 0)
Busy(stage, op, u, q, c, i, read) ==
    [stage |-> stage, op |-> op, user |-> u, req |-> q, code |-> c, id |-> i, read |-> read]

\* views.BookingViewSet.create up to the overlap query
CreateCheck(w, u, q) ==
    LET r == create_result(q.pitch, q.date, q.start_time, q.end_time) IN
    /\ routes = "views"
    /\ inflight[w].stage = "idle"
    /\ IF r = "created"
       THEN /\ inflight' = [inflight EXCEPT ![w] = Busy("insert", "create", u, q, NoPromo, 0, 0)]
            /\ UNCHANGED <<bookings, nextId, payments, price_per_hour, current_uses, applied,
                           reserved_hours, now, routes, last, availabilities>>
       ELSE rejected("create", r)

\* enhanced_views.BookingViewSet.create up to the promotion's is_valid: the
\* Promotion instance is loaded here and its current_uses kept in memory
EnhancedCreateCheck(w, u, q, c) ==
    LET r == enhanced_create_result(u, q.pitch, q.date, q.start_time, q.end_time, c) IN
    /\ routes = "enhanced_views"
    /\ inflight[w].stage = "idle"
    /\ IF r = "created"
       THEN /\ inflight' = [inflight EXCEPT ![w] =
                              Busy("insert", "enhanced_create", u, q, c, 0,
                                   IF c = NoPromo THEN 0 ELSE current_uses[c])]
            /\ UNCHANGED <<bookings, nextId, payments, price_per_hour, current_uses, applied,
                           reserved_hours, now, routes, last, availabilities>>
       ELSE rejected("enhanced_create", r)

\* Booking.objects.create and what follows it in either handler: under
\* enhanced_views the payment row, then promotion.current_uses += 1 on the
\* instance loaded before and promotion.save()
CreateInsert(w) ==
    LET f == inflight[w]
        q == f.req
    IN
    /\ f.stage = "insert"
    /\ nextId <= MaxBookings
    /\ bookings' = (nextId :> new_booking(q.pitch, f.user, q.date, q.start_time, q.end_time))
                   @@ bookings
    /\ nextId' = nextId + 1
    /\ reserved_hours' = update_user_reserved_hours(reserved_hours, bookings', {f.user})
    /\ payments' = IF f.op = "enhanced_create"
                   THEN (nextId :> [amount |-> bookings'[nextId].total_price,
                                    status |-> "pending"]) @@ payments
                   ELSE payments
    /\ current_uses' = IF f.code = NoPromo THEN current_uses
                       ELSE [current_uses EXCEPT ![f.code] = f.read + 1]
    /\ applied' = IF f.code = NoPromo THEN applied
                  ELSE [applied EXCEPT ![f.code] = @ \cup {nextId}]
    /\ last' = Resp(f.op, "created", nextId)
    /\ inflight' = [inflight EXCEPT ![w] = Idle]
    /\ UNCHANGED <<price_per_hour, now, routes, availabilities>>

\* views confirm / cancel up to booking.save(): the row is written, and the
\* post_save signal has not yet run its query
StatusSave(w, op, r, i, st) ==
    /\ routes = "views"
    /\ inflight[w].stage = "idle"
    /\ IF r = "ok"
       THEN /\ bookings' = [swept EXCEPT ![i] = saved(@, st)]
            /\ reserved_hours' = swept_reserved
            /\ inflight' = [inflight EXCEPT ![w] =
                              Busy("signal_read", op, swept[i].player, NoRequest, NoPromo, i, 0)]
            /\ UNCHANGED <<nextId, payments, price_per_hour, current_uses, applied, now,
                           routes, last, availabilities>>
       ELSE Refuse(op, r, i)

ConfirmSave(w, u, i) == StatusSave(w, "confirm", confirm_result(u, i), i, "confirmed")
CancelSave(w, u, i) == StatusSave(w, "cancel", cancel_result(u, i), i, "cancelled")

\* the signal's calculate_reserved_hours(): the bookings are read and summed
SignalRead(w) ==
    /\ inflight[w].stage = "signal_read"
    /\ inflight' = [inflight EXCEPT ![w].stage = "signal_write",
                                    ![w].read = calculate_reserved_hours(bookings,
                                                                         inflight[w].user)]
    /\ UNCHANGED <<bookings, nextId, payments, price_per_hour, current_uses, applied,
                   reserved_hours, now, routes, last, availabilities>>

\* the signal's self.save(update_fields=['reserved_hours']) with the sum computed
\* before, then the rest of the handler: confirm creates the payment row, cancel
\* marks the payment refunded
SignalWrite(w) ==
    LET f == inflight[w] IN
    /\ f.stage = "signal_write"
    /\ reserved_hours' = [reserved_hours EXCEPT ![f.user] = f.read]
    /\ payments' = IF f.op = "confirm"
                   THEN IF f.id \in DOMAIN payments \/ f.id \notin DOMAIN bookings
                        THEN payments
                        ELSE (f.id :> [amount |-> bookings[f.id].total_price,
                                       status |-> "pending"]) @@ payments
                   ELSE IF f.id \in DOMAIN payments
                        THEN [payments EXCEPT ![f.id].status = "refunded"]
                        ELSE payments
    /\ last' = Resp(f.op, IF f.op = "confirm" /\ f.id \in DOMAIN payments
                          THEN "server_error" ELSE "ok", f.id)
    /\ inflight' = [inflight EXCEPT ![w] = Idle]
    /\ UNCHANGED <<bookings, nextId, price_per_hour, current_uses, applied, now, routes,
                   availabilities>>

\* ------------------------------------------------------------ specifications
\* Booking lifecycle: creation, update, confirmation, cancellation, deletion and
\* expiry sweeps, under either router.
Next ==
    \/ Tick
    \/ \E u \in Creators, q \in Requests :
          Create(u, q.pitch, q.date, q.start_time, q.end_time)
    \/ \E u \in EnhancedCreators, q \in Requests :
          EnhancedCreate(u, q.pitch, q.date, q.start_time, q.end_time, NoPromo, TRUE)
    \/ \E u \in Users, i \in BookingIds, mail \in BOOLEAN : Confirm(u, i, mail)
    \/ \E u \in Users, i \in BookingIds : EnhancedConfirm(u, i, TRUE)
    \/ \E u \in Users, i \in BookingIds : Cancel(u, i, TRUE)
    \/ \E u \in Users, i \in BookingIds : EnhancedCancel(u, i, TRUE)
    \/ \E u \in Users, i \in BookingIds, q \in Patches :
          PartialUpdate(u, i, q.date, q.start_time, q.end_time)
    \/ \E u \in Users, i \in BookingIds : Destroy(u, i)
    \/ \E u \in Users : List(u)
    \/ \E u \in Users : UpdateExpired(u)
    \/ ExpireCommand

Spec == Init /\ [][Next]_vars

\* Pricing and promotions: the pitch's rate changes between requests, creation
\* requests carry promotion codes, payments are processed.  The requests are a
\* two hour slot and a 45 minute slot inside the opening window.
PriceSlots == {<<1, 9>>, <<2, 5>>}
PriceRequests == {Req("p1", 1, se[1], se[2]) : se \in PriceSlots}

NextPrice ==
    \/ Tick
    \/ \E p \in Pitches, r \in Rates : SetRate(p, r)
    \/ \E u \in Creators, q \in PriceRequests :
          Create(u, q.pitch, q.date, q.start_time, q.end_time)
    \/ \E u \in Creators, q \in PriceRequests, c \in PromoCodes :
          EnhancedCreate(u, q.pitch, q.date, q.start_time, q.end_time, c, TRUE)
    \/ \E u \in Users, i \in BookingIds : Confirm(u, i, TRUE)
    \/ \E u \in Users, i \in BookingIds : EnhancedConfirm(u, i, TRUE)
    \/ \E u \in Users, i \in BookingIds : Cancel(u, i, TRUE)
    \/ \E u \in Users, i \in BookingIds : EnhancedCancel(u, i, TRUE)
    \/ \E u \in Users, i \in BookingIds, method \in BOOLEAN : PaymentProcess(u, i, method, TRUE)
    \/ \E u \in Users, c \in Promos, i \in {0} \cup BookingIds : PromotionUse(u, c, i)
    \/ \E u \in Users : List(u)
    \/ ExpireCommand

SpecPrice == Init /\ [][NextPrice]_vars

\* Payments and the reserved-hours cache: bookings of two half hours and one
\* reversed interval are created, confirmed, cancelled, paid, swept and deleted,
\* and the reserved-hours command runs.
PaySlots == {<<1, 3>>, <<3, 5>>, <<5, 1>>}
PayRequests == {Req("p1", 1, se[1], se[2]) : se \in PaySlots}
PaymentStatuses == {"pending", "completed"}

NextPay ==
    \/ Tick
    \/ \E u \in Creators, q \in PayRequests :
          Create(u, q.pitch, q.date, q.start_time, q.end_time)
    \/ \E u \in Creators, q \in PayRequests :
          EnhancedCreate(u, q.pitch, q.date, q.start_time, q.end_time, NoPromo, TRUE)
    \/ \E u \in Users, i \in BookingIds : Confirm(u, i, TRUE)
    \/ \E u \in Users, i \in BookingIds : EnhancedConfirm(u, i, TRUE)
    \/ \E u \in Users, i \in BookingIds : Cancel(u, i, TRUE)
    \/ \E u \in Users, i \in BookingIds : EnhancedCancel(u, i, TRUE)
    \/ \E u \in Creators, i \in BookingIds, st \in PaymentStatuses :
          PaymentCreate(u, i, st)
    \/ \E u \in Users, i \in BookingIds : PaymentProcess(u, i, TRUE, TRUE)
    \/ \E u \in Creators, c \in Promos, i \in BookingIds : PromotionUse(u, c, i)
    \/ \E u \in Users, i \in BookingIds : Destroy(u, i)
    \/ \E u \in Users : List(u)
    \/ \E u \in Users : UpdateExpired(u)
    \/ ExpireCommand
    \/ ReservedHoursCommand

SpecPay == Init /\ [][NextPay]_vars

\* The booking's player acting alone: every request comes from the player.
NextPlayer ==
    \/ Tick
    \/ \E u \in Creators, q \in PayRequests :
          Create(u, q.pitch, q.date, q.start_time, q.end_time)
    \/ \E u \in Creators, q \in PayRequests :
          EnhancedCreate(u, q.pitch, q.date, q.start_time, q.end_time, NoPromo, TRUE)
    \/ \E u \in Creators, i \in BookingIds : Confirm(u, i, TRUE)
    \/ \E u \in Creators, i \in BookingIds : EnhancedConfirm(u, i, TRUE)
    \/ \E u \in Creators, i \in BookingIds : Cancel(u, i, TRUE)
    \/ \E u \in Creators, i \in BookingIds : EnhancedCancel(u, i, TRUE)
    \/ \E u \in Creators, i \in BookingIds, st \in PaymentStatuses :
          PaymentCreate(u, i, st)
    \/ \E u \in Creators, i \in BookingIds, method \in BOOLEAN :
          PaymentProcess(u, i, method, TRUE)
    \/ \E u \in Creators, c \in Promos, i \in {0} \cup BookingIds : PromotionUse(u, c, i)
    \/ \E u \in Creators : List(u)
    \/ \E u \in Creators : UpdateExpired(u)

SpecPlayer == Init /\ [][NextPlayer]_vars

\* Creation requests of every kind: those of the lifecycle, and requests with a
\* missing end_time, an unparsable start_time and an unparsable date; with and
\* without promotion codes.  The owner confirms, so payments and reserved hours
\* exist, and the clock lets pending bookings expire.
BadRequests == {Req("p1", 1, 1, Absent), Req("p1", 1, Malformed, 3), Req("p1", Malformed, 1, 3)}
AllRequests == Requests \cup BadRequests

NextCreate ==
    \/ Tick
    \/ \E u \in Creators, q \in AllRequests :
          Create(u, q.pitch, q.date, q.start_time, q.end_time)
    \/ \E u \in EnhancedCreators, q \in AllRequests, c \in PromoCodes :
          EnhancedCreate(u, q.pitch, q.date, q.start_time, q.end_time, c, TRUE)
    \/ \E i \in BookingIds : Confirm(pitch_owner("p1"), i, TRUE)
    \/ \E i \in BookingIds : EnhancedConfirm(pitch_owner("p1"), i, TRUE)

SpecCreate == Init /\ [][NextCreate]_vars

\* Bookings made by accounts of every type: a player, an owner of other pitches
\* and an admin create bookings and cancel them; the pitch's owner confirms.
Bookers == {"alice", "erin", "carol"}

NextOwn ==
    \/ Tick
    \/ \E u \in Bookers, q \in PayRequests :
          Create(u, q.pitch, q.date, q.start_time, q.end_time)
    \/ \E u \in Bookers, q \in PayRequests :
          EnhancedCreate(u, q.pitch, q.date, q.start_time, q.end_time, NoPromo, TRUE)
    \/ \E i \in BookingIds : Confirm(pitch_owner("p1"), i, TRUE)
    \/ \E i \in BookingIds : EnhancedConfirm(pitch_owner("p1"), i, TRUE)
    \/ \E u \in Bookers, i \in BookingIds : Cancel(u, i, TRUE)
    \/ \E u \in Bookers, i \in BookingIds : EnhancedCancel(u, i, TRUE)
    \/ \E u \in Bookers : List(u)

SpecOwn == Init /\ [][NextOwn]_vars

\* Availability rows are rewritten through the API while bookings are created:
\* opening and closing times in either order and equal, on the two weekdays that
\* have a row and on one that has none.
OpeningTimes == {1, 5}
ClosingTimes == {3, 5, MaxTime - 1}
RowDays == {0, 1, 2}

NextAvail ==
    \/ Tick
    \/ \E u \in Creators, wd \in RowDays \cup {DaysPerWeek}, o \in OpeningTimes,
          c \in ClosingTimes :
          AvailabilityCreate(u, wd, o, c, TRUE)
    \/ \E u \in Creators, p \in Pitches, wd \in RowDays, o \in OpeningTimes,
          c \in ClosingTimes, open \in BOOLEAN :
          AvailabilityUpdate(u, p, wd, o, c, open)
    \/ \E u \in Creators, q \in PayRequests :
          Create(u, q.pitch, q.date, q.start_time, q.end_time)
    \/ \E u \in Creators, q \in PayRequests :
          EnhancedCreate(u, q.pitch, q.date, q.start_time, q.end_time, NoPromo, TRUE)

SpecAvail == Init /\ [][NextAvail]_vars

\* The lifecycle with sweeps that keep running: the management command is
\* scheduled again and again and the clock advances as long as it can.
NextLive ==
    \/ Tick
    \/ \E u \in Creators, q \in PayRequests :
          Create(u, q.pitch, q.date, q.start_time, q.end_time)
    \/ \E u \in Creators, q \in PayRequests :
          EnhancedCreate(u, q.pitch, q.date, q.start_time, q.end_time, NoPromo, TRUE)
    \/ \E i \in BookingIds : Confirm(pitch_owner("p1"), i, TRUE)
    \/ \E i \in BookingIds : EnhancedConfirm(pitch_owner("p1"), i, TRUE)
    \/ \E u \in Creators, i \in BookingIds : Cancel(u, i, TRUE)
    \/ \E u \in Creators, i \in BookingIds : EnhancedCancel(u, i, TRUE)
    \/ ExpireCommand

SpecLive == Init /\ [][NextLive]_vars /\ WF_vars(Tick) /\ WF_vars(ExpireCommand)

\* Two workers serve requests at the same time: creation requests for touching
\* and overlapping half hours, with and without the promotion that may be used
\* once, and the owner's confirmations and the player's cancellations.
RaceSlots == {<<1, 3>>, <<2, 4>>, <<3, 5>>}
RaceRequests == {Req("p1", 1, se[1], se[2]) : se \in RaceSlots}
RaceCodes == {NoPromo, "ONCE50"}

NextRace ==
    \/ \E w \in Workers, u \in Creators, q \in RaceRequests : CreateCheck(w, u, q)
    \/ \E w \in Workers, u \in Creators, q \in RaceRequests, c \in RaceCodes :
          EnhancedCreateCheck(w, u, q, c)
    \/ \E w \in Workers : CreateInsert(w)
    \/ \E w \in Workers, i \in BookingIds : ConfirmSave(w, pitch_owner("p1"), i)
    \/ \E w \in Workers, u \in Creators, i \in BookingIds : CancelSave(w, u, i)
    \/ \E w \in Workers : SignalRead(w)
    \/ \E w \in Workers : SignalWrite(w)

SpecRace == Init /\ [][NextRace]_vars

\* =================================================================== claims
\* The claims' own reading of the terms they use, kept apart from the operators
\* that model the code.
ClaimActive(b) == b.status = "pending" \/ b.status = "confirmed"
ClaimOverlap(s1, e1, s2, e2) == s1 < e2 /\ s2 < e1

\* the answer the served create handler gives user u for request q in this state
request_result(u, q) ==
    IF routes = "views"
    THEN create_result(q.pitch, q.date, q.start_time, q.end_time)
    ELSE enhanced_create_result(u, q.pitch, q.date, q.start_time, q.end_time, NoPromo)

CreateOps == {"create", "enhanced_create"}
NewIds == DOMAIN bookings' \ DOMAIN bookings

\* active bookings of the request's pitch and date that the request overlaps
Blocking(q) ==
    {i \in DOMAIN bookings : /\ bookings[i].pitch = q.pitch /\ bookings[i].date = q.date
                             /\ ClaimActive(bookings[i])
                             /\ ClaimOverlap(q.start_time, q.end_time,
                                             bookings[i].start_time, bookings[i].end_time)}

\* C1: no two distinct active (pending or confirmed) bookings of the same pitch
\* and date have overlapping intervals.
C1_NoDoubleBooking ==
    \A i, j \in DOMAIN bookings :
        (i # j /\ bookings[i].pitch = bookings[j].pitch /\ bookings[i].date = bookings[j].date
         /\ ClaimActive(bookings[i]) /\ ClaimActive(bookings[j]))
        => ~ClaimOverlap(bookings[i].start_time, bookings[i].end_time,
                         bookings[j].start_time, bookings[j].end_time)

\* C2 as stated: a creation request that overlaps an active booking of its pitch
\* and date is always answered with the slot-conflict error, and a request that
\* overlaps none (it may touch one) is never answered with it.
C2_OverlapAlwaysSlotConflict ==
    \A u \in Users, q \in Requests :
        /\ Blocking(q) # {} => request_result(u, q) = "slot_conflict"
        /\ Blocking(q) = {} => request_result(u, q) # "slot_conflict"

\* C2 as amended: the conflict check is half-open.  In every reachable state a
\* creation request that overlaps an active booking of its pitch and date is
\* refused, with the slot-conflict error unless a check that runs before the
\* conflict check already refused it; a request that overlaps no active booking
\* (it may touch one) is never answered with the slot-conflict error; and a
\* refused request stores no booking.
EarlierRefusals == {"forbidden", "pitch_not_found", "past_date", "invalid_interval",
                    "too_short", "no_availability", "unavailable_day", "outside_hours"}

C2_HalfOpenConflict ==
    /\ [](\A u \in Users, q \in Requests :
            LET r == request_result(u, q) IN
            /\ Blocking(q) # {} => /\ r # "created"
                                   /\ r \notin EarlierRefusals => r = "slot_conflict"
            /\ Blocking(q) = {} => r # "slot_conflict")
    /\ [][(last'.op \in CreateOps /\ last'.result # "created") => bookings' = bookings]_vars

\* a request that touched an active booking was accepted: two active bookings of
\* one pitch and date share an end point, and the last response is the creation
C2_Witness ==
    /\ last.op \in CreateOps /\ last.result = "created"
    /\ \E i, j \in DOMAIN bookings :
          /\ i # j /\ ClaimActive(bookings[i]) /\ ClaimActive(bookings[j])
          /\ bookings[i].date = bookings[j].date
          /\ bookings[i].end_time = bookings[j].start_time
          /\ bookings[i].start_time < bookings[i].end_time
          /\ bookings[j].start_time < bookings[j].end_time

\* C3: a cancelled or completed booking blocks nothing: in every reachable state
\* a creation request that overlaps only cancelled or completed bookings of its
\* pitch and date is not answered with the slot-conflict error.
Inactive(q) ==
    {i \in DOMAIN bookings : /\ bookings[i].pitch = q.pitch /\ bookings[i].date = q.date
                             /\ bookings[i].status \in {"cancelled", "completed"}
                             /\ ClaimOverlap(q.start_time, q.end_time,
                                             bookings[i].start_time, bookings[i].end_time)}

C3_OnlyActiveBlocks ==
    \A u \in Users, q \in Requests :
        (Inactive(q) # {} /\ Blocking(q) = {}) => request_result(u, q) # "slot_conflict"

\* a booking was created over a cancelled booking of the same pitch and date
C3_Witness ==
    /\ last.op \in CreateOps /\ last.result = "created"
    /\ \E i, j \in DOMAIN bookings :
          /\ bookings[i].status = "cancelled" /\ bookings[j].status = "pending"
          /\ i < j
          /\ bookings[i].pitch = bookings[j].pitch /\ bookings[i].date = bookings[j].date
          /\ ClaimOverlap(bookings[i].start_time, bookings[i].end_time,
                          bookings[j].start_time, bookings[j].end_time)

\* C4: every stored booking ends strictly after it starts and lasts at least
\* 30 minutes.
C4_ValidInterval ==
    \A i \in DOMAIN bookings :
        /\ bookings[i].end_time > bookings[i].start_time
        /\ bookings[i].end_time - bookings[i].start_time >= MinDurationQ

\* C5: a creation request for a date whose weekday has no availability row or an
\* unavailable one, or with start before the opening or end after the closing time,
\* is refused; every booking, at the step that creates it, lies inside the opening
\* window of an available row of its weekday.
InOpeningWindow(p, d, s, e) ==
    LET a == availability(p, weekday(d)) IN
    /\ a.exists /\ a.is_available
    /\ a.opening_time <= s /\ e <= a.closing_time

C5_CreatedInsideWindow ==
    /\ [](\A u \in Users, q \in Requests :
            (q.pitch \in Pitches /\ ~InOpeningWindow(q.pitch, q.date, q.start_time, q.end_time))
                => request_result(u, q) # "created")
    /\ [][\A i \in NewIds :
             InOpeningWindow(bookings'[i].pitch, bookings'[i].date,
                             bookings'[i].start_time, bookings'[i].end_time)]_vars

\* a request outside the opening hours, or on a closed day, was refused
C5_Witness ==
    /\ last.op \in CreateOps
    /\ last.result \in {"outside_hours", "unavailable_day", "no_availability"}

\* C6 as stated: every request with end > start, at least 30 minutes, inside the
\* opening window of an available row and overlapping no active booking is
\* answered with a created booking.
ValidRequest(q) ==
    /\ q.pitch \in Pitches
    /\ q.end_time > q.start_time
    /\ q.end_time - q.start_time >= MinDurationQ
    /\ InOpeningWindow(q.pitch, q.date, q.start_time, q.end_time)
    /\ Blocking(q) = {}

CodesOf(i) == {c \in Promos : i \in applied'[c]}

\* |price - rate * quarters / 4 * (100 - discount) / 100| is at most half a cent
RoundedPrice(price, rate, quarters, discount) ==
    LET exact == rate * quarters * (Percent - discount)
        scaled == price * QuartersPerHour * Percent
    IN  2 * (scaled - exact) <= QuartersPerHour * Percent
        /\ 2 * (exact - scaled) <= QuartersPerHour * Percent

\* C7: a booking created without a promotion is stored with the pitch's hourly
\* rate times its duration in hours, rounded to the cent; at 50.00 an hour a two
\* hour booking costs 100.00.
C7_PriceWithoutPromotion ==
    [][\A i \in NewIds :
          CodesOf(i) = {} =>
             LET b == bookings'[i] IN
             /\ RoundedPrice(b.total_price, price_per_hour[b.pitch],
                             b.end_time - b.start_time, 0)
             /\ (price_per_hour[b.pitch] = 5000 /\ b.end_time - b.start_time = 2 * QuartersPerHour)
                   => b.total_price = 10000]_vars

\* a two hour booking at 50.00 stored with 100.00 next to a 45 minute booking at
\* 20.50 stored with 15.38
C7_Witness ==
    /\ last.result = "created"
    /\ \E i, j \in DOMAIN bookings :
          /\ bookings[i].end_time - bookings[i].start_time = 2 * QuartersPerHour
          /\ bookings[i].total_price = 10000
          /\ bookings[j].end_time - bookings[j].start_time = 3
          /\ bookings[j].total_price = 1538
          /\ \A c \in Promos : applied[c] \cap {i, j} = {}

\* C8: a booking created with a valid promotion is stored with rate times duration
\* times (1 - discount_percentage / 100), rounded to the cent.
C8_PriceWithPromotion ==
    [][\A i \in NewIds : \A c \in CodesOf(i) :
          LET b == bookings'[i] IN
          RoundedPrice(b.total_price, price_per_hour[b.pitch],
                       b.end_time - b.start_time, discount_percentage(c))]_vars

\* C9: a rate change, a confirmation, a cancellation, the processing of a payment
\* and an expiry sweep leave the stored total_price of every booking as it was.
FrozenOps == {"set_rate", "confirm", "enhanced_confirm", "cancel", "enhanced_cancel",
              "process", "list", "update_expired", "expire_command"}

C9_PriceFrozen ==
    [][last'.op \in FrozenOps =>
          \A i \in DOMAIN bookings \cap DOMAIN bookings' :
             bookings'[i].total_price = bookings[i].total_price]_vars

Exhausted(c) == max_uses(c) # NoLimit /\ current_uses[c] = max_uses(c)

\* the claims' reading of "instant a is at or before instant b"
AtOrBefore(a, b) == a.date < b.date \/ (a.date = b.date /\ a.time <= b.time)

\* the promotion is visible to the user of a use request: admins see every
\* promotion, other users those whose window holds the current instant
VisibleTo(c, u) ==
    user_type(u) = "admin" \/ (AtOrBefore(valid_from(c), now) /\ AtOrBefore(now, valid_until(c)))

C12_HalfOpenWindow ==
    \A c \in Promos : ~Exhausted(c) =>
        (is_valid(c) <=> (AtOrBefore(valid_from(c), now) /\ AtOrBefore(now, valid_until(c))
                          /\ now # valid_until(c)))

\* C12 as amended: the window is closed.  A promotion with uses left is valid
\* exactly at the instants from valid_from to valid_until, both included, and at
\* no later instant; a booking is created with a code only at such an instant.
C12_ClosedWindow ==
    /\ [](\A c \in Promos : ~Exhausted(c) =>
            (is_valid(c) <=> (AtOrBefore(valid_from(c), now)
                              /\ AtOrBefore(now, valid_until(c)))))
    /\ [][\A i \in NewIds : \A c \in CodesOf(i) :
             AtOrBefore(valid_from(c), now) /\ AtOrBefore(now, valid_until(c))]_vars

\* a booking was created with ONCE50 at the instant valid_until of ONCE50, and a
\* second one with SAVE20 at the instant valid_from of SAVE20
C12_Witness ==
    /\ now = valid_from("SAVE20")
    /\ applied["ONCE50"] # {} /\ applied["SAVE20"] # {}
    /\ last = [op |-> "enhanced_create", result |-> "created"]

\* ---------------------------------------------------------------- lifecycle
\* C13: completed and cancelled are terminal: no step changes the status of a
\* booking that is completed or cancelled.
C13_TerminalStatuses ==
    [][\A i \in DOMAIN bookings \cap DOMAIN bookings' :
          bookings[i].status \in {"completed", "cancelled"}
             => bookings'[i].status = bookings[i].status]_vars

\* the answer the served confirm handler gives user u for booking i
served_confirm_result(u, i) ==
    IF routes = "views" THEN confirm_result(u, i) ELSE enhanced_confirm_result(u, i)

\* the answer the served cancel handler gives user u for booking i
served_cancel_result(u, i) ==
    IF routes = "views" THEN cancel_result(u, i) ELSE enhanced_cancel_result(u, i)

\* the bookings the user can address: a player their own, an owner those of
\* their pitches, an admin all
Addressable(u) ==
    {i \in DOMAIN bookings : \/ user_type(u) = "admin"
                             \/ (user_type(u) = "owner" /\ pitch_owner(bookings[i].pitch) = u)
                             \/ (user_type(u) = "player" /\ bookings[i].player = u)}

MayConfirm(u, i) == user_type(u) = "admin" \/ pitch_owner(bookings[i].pitch) = u

ConfirmOps == {"confirm", "enhanced_confirm"}
CancelOps == {"cancel", "enhanced_cancel"}

C15_PlayerNeverConfirms ==
    \A i \in DOMAIN bookings : bookings[i].status # "confirmed"

\* actors who are neither the booking's player, nor its pitch's owner, nor an admin
Outsiders(i) ==
    {u \in Users : /\ u # bookings[i].player /\ u # pitch_owner(bookings[i].pitch)
                   /\ user_type(u) # "admin"}

ClaimExpired(b) == b.date < now.date \/ (b.date = now.date /\ b.end_time <= now.time)

SweepOps == {"list", "update_expired", "expire_command"}

C17_SweepCompletesExpiredPending ==
    [][(now' = now /\ last'.op \in SweepOps /\ last'.result = "ok")
          => /\ DOMAIN bookings' = DOMAIN bookings
             /\ \A i \in DOMAIN bookings :
                   bookings'[i] =
                      IF bookings[i].status = "pending" /\ ClaimExpired(bookings[i])
                      THEN [bookings[i] EXCEPT !.status = "completed"]
                      ELSE bookings[i]
             /\ \A i \in DOMAIN bookings' :
                   ~(bookings'[i].status = "pending"
                     /\ (bookings'[i].date < now'.date
                         \/ (bookings'[i].date = now'.date
                             /\ bookings'[i].end_time <= now'.time)))]_vars

\* after a sweep a booking that ended exactly at the current time is completed
\* and a booking that ends later is still pending
C17_Witness ==
    /\ last.op \in SweepOps /\ last.result = "ok"
    /\ \E i, j \in DOMAIN bookings :
          /\ bookings[i].status = "completed"
          /\ bookings[i].date = now.date /\ bookings[i].end_time = now.time
          /\ bookings[j].status = "pending" /\ bookings[j].end_time > now.time

\* ------------------------------------------------------------ reserved hours
RECURSIVE ClaimQuarters(_)
ClaimQuarters(S) ==
    IF S = {} THEN 0
    ELSE LET i == CHOOSE x \in S : TRUE
         IN  (bookings[i].end_time - bookings[i].start_time) + ClaimQuarters(S \ {i})

\* whole hours in q quarter hours, truncated toward zero
ClaimWholeHours(q) == IF q >= 0 THEN q \div QuartersPerHour ELSE -((-q) \div QuartersPerHour)

Committed(u) ==
    {i \in DOMAIN bookings : bookings[i].player = u
                             /\ bookings[i].status \in {"confirmed", "completed"}}

\* C18: each user's stored reserved_hours is the total duration of the user's
\* confirmed and completed bookings, truncated once to whole hours.
C18_ReservedHoursIsTruncatedSum ==
    \A u \in Users : reserved_hours[u] = ClaimWholeHours(ClaimQuarters(Committed(u)))

\* two committed half-hour bookings of one user give one reserved hour
C18_Witness ==
    /\ \E i, j \in Committed("alice") :
          /\ i # j
          /\ bookings[i].end_time - bookings[i].start_time = MinDurationQ
          /\ bookings[j].end_time - bookings[j].start_time = MinDurationQ
    /\ reserved_hours["alice"] = 1

\* C19: no user's stored reserved_hours is negative.
C19_ReservedHoursNonNegative ==
    \A u \in Users : reserved_hours[u] >= 0

\* C20: the reserved-hours command is idempotent: in the state it leaves, running
\* it again stores the same value for every user; and it changes no booking, no
\* payment, no rate and no promotion counter.
C20_RecomputeIdempotent ==
    /\ [](last.op = "reserved_hours_command"
             => recomputed_reserved_hours(reserved_hours, bookings) = reserved_hours)
    /\ [][last'.op = "reserved_hours_command"
             => UNCHANGED <<bookings, payments, price_per_hour, current_uses, nextId>>]_vars

\* the command ran while a user had a reserved hour
C20_Witness ==
    /\ last.op = "reserved_hours_command"
    /\ reserved_hours["alice"] >= 1

\* --------------------------------------------------------- creation requests
\* C30: no booking is created for a date earlier than the current date.
C30_NoPastDateCreated ==
    [][\A i \in NewIds : bookings'[i].date >= now.date]_vars

RejectedKinds ==
    {"missing_field", "pitch_not_found", "invalid_format", "no_availability",
     "unavailable_day", "outside_hours", "slot_conflict", "invalid_promotion",
     "forbidden", "past_date", "invalid_interval", "too_short"}

\* C22: a creation request that is rejected leaves the bookings, the payments,
\* the promotion counters and every user's reserved_hours as they were; and a
\* request is answered either with one of the rejections or with the creation.
C22_RejectedCreationWritesNothing ==
    /\ [](\A u \in EnhancedCreators, q \in AllRequests, c \in PromoCodes :
            LET r == IF routes = "views"
                     THEN create_result(q.pitch, q.date, q.start_time, q.end_time)
                     ELSE enhanced_create_result(u, q.pitch, q.date, q.start_time,
                                                 q.end_time, c)
            IN  r \in RejectedKinds \cup {"created"})
    /\ [][(last'.op \in CreateOps /\ last'.result \in RejectedKinds)
             => UNCHANGED <<bookings, payments, current_uses, reserved_hours, nextId>>]_vars

\* a request with an invalid promotion code was rejected while a pending booking
\* was already expired and a payment and a used promotion existed
C22_Witness ==
    /\ last.op \in CreateOps /\ last.result = "invalid_promotion"
    /\ \E i \in DOMAIN bookings : bookings[i].status = "pending" /\ ClaimExpired(bookings[i])
    /\ DOMAIN payments # {}
    /\ \E c \in Promos : current_uses[c] > 0

\* ------------------------------------------------------------ notification
\* C23: a confirm or cancel request that passes its checks and whose email
\* cannot be sent is still answered with success, and its booking has the new
\* status.
C23_SendFailureStillSuccess ==
    [][\A u \in Users, i \in BookingIds :
          /\ (Confirm(u, i, FALSE) /\ confirm_result(u, i) = "ok" /\ i \notin DOMAIN payments)
                => (last'.result = "ok" /\ bookings'[i].status = "confirmed")
          /\ (Cancel(u, i, FALSE) /\ cancel_result(u, i) = "ok")
                => (last'.result = "ok" /\ bookings'[i].status = "cancelled")]_vars

\* ------------------------------------------------------ booking and payment
\* payments that are completed after the step and were not before it
NewlyCompleted ==
    {i \in DOMAIN payments' : /\ payments'[i].status = "completed"
                              /\ ~(i \in DOMAIN payments /\ payments[i].status = "completed")}

\* C28: a cancelled booking never has a pending or completed payment, and a
\* payment becomes completed only while its booking is pending or confirmed.
\* (A booking has at most one payment by construction: payments are keyed by
\* their booking, as the one-to-one field makes them.)
C28_BookingPaymentConsistent ==
    /\ [](\A i \in DOMAIN bookings \cap DOMAIN payments :
             bookings[i].status = "cancelled"
                => payments[i].status \notin {"pending", "completed"})
    /\ [][\A i \in NewlyCompleted :
             i \in DOMAIN bookings /\ bookings[i].status \in {"pending", "confirmed"}]_vars

\* C26: the player of a pending or confirmed booking can cancel it: the served
\* cancel handler answers the player's request with success.
C26_PlayerCanCancelOwnBooking ==
    \A i \in DOMAIN bookings :
        bookings[i].status \in {"pending", "confirmed"}
           => served_cancel_result(bookings[i].player, i) = "ok"

\* ------------------------------------------------------------- availability
\* C24: every availability row closes strictly after it opens.
C24_ClosingAfterOpening ==
    \A p \in Pitches, wd \in Weekdays :
        availabilities[p][wd].exists
           => availabilities[p][wd].closing_time > availabilities[p][wd].opening_time

\* ------------------------------------------------------------------ liveness
\* C27: while sweeps keep running, every booking whose date and end time are in
\* the past eventually is completed or cancelled.
C27_ExpiredEventuallyTerminal ==
    \A i \in BookingIds :
        [](  (i \in DOMAIN bookings /\ ClaimExpired(bookings[i]))
             => <>(i \in DOMAIN bookings
                   /\ bookings[i].status \in {"completed", "cancelled"}))

\* --------------------------------------------------------------- concurrency
\* C21: when creation requests are served concurrently, a booking is inserted
\* only if at that moment no active booking of its pitch and date overlaps it
\* (of two overlapping requests exactly one succeeds).
C21_InsertedOnlyIfFree ==
    [][\A i \in NewIds : Blocking(bookings'[i]) = {}]_vars

AllIdle == \A w \in Workers : inflight[w].stage = "idle"

\* C25: once every request in flight has finished, each user's stored
\* reserved_hours is the truncated sum of the durations of the user's confirmed
\* and completed bookings.
C25_ReservedHoursAfterConcurrentOps ==
    AllIdle => \A u \in Users : reserved_hours[u] = ClaimWholeHours(ClaimQuarters(Committed(u)))

====
